---- MODULE Spec2Model ----
(***************************************************************************)
(* A model of the per-token client cache of xgql                          *)
(* (internal/clients/clients.go): Cache.Get, Cache.remove, the two        *)
(* goroutines every session owns, the session's idle ticker and the       *)
(* session operations that reset it.                                      *)
(*                                                                         *)
(* Callers of Cache.Get are anonymous goroutines. A call that missed the  *)
(* map and has not built its session yet is counted in missed; from then  *)
(* on its position is kept with the session it built (get). Critical      *)
(* sections under c.mx contain no blocking call, so each is one atomic    *)
(* step.                                                                  *)
(*                                                                         *)
(* Time is discrete; one unit is one minute, so the idle expiry is 5. A   *)
(* ticker is modelled by the time left until its next tick, so the model  *)
(* is finite without a bound on the time that passes.                     *)
(***************************************************************************)
EXTENDS Integers, FiniteSets, Sequences, TLC

\* ------------------------------------------------------------------ bounds
MaxSessions == 2    \* sessions ever built (session instances are 1..MaxSessions)
MaxCallers == 2     \* calls of Cache.Get in progress at the same time

\* --------------------------------------------------------------- constants
expiry == 5         \* const expiry = 5 * time.Minute

Tokens == {"tok-a", "tok-b"}
Sessions == 1..MaxSessions
NoSession == 0      \* a nil *session / an absent map entry

ErrWriteClient == "cannot create write client"
ErrCache == "cannot create cache"
ErrDelegatingClient == "cannot create delegating client"
ErrSync == "cannot sync cache"
ConstructionErrors == {ErrWriteClient, ErrCache, ErrDelegatingClient}

\* The operations of a session; the first seven return an error, the last
\* three return an object of the underlying client.
DataOperations == {"Get", "List", "Create", "Delete", "Update", "Patch", "DeleteAllOf"}
AccessorOperations == {"Status", "Scheme", "RESTMapper"}
Operations == DataOperations \cup AccessorOperations

\* What the underlying delegating client can answer.
ClientResults(op) == IF op \in DataOperations THEN {"nil", "error"} ELSE {"object"}

VARIABLES
    active,       \* Cache.active: token -> session (NoSession when absent)
    built,        \* number of sessions built so far
    missed,       \* token -> calls of Get that missed and are constructing
    token,        \* session -> the token its Get was called with
    get,          \* session -> position of the Get that built it
    ctxDone,      \* session -> its context has been cancelled
    expired,      \* session -> its ticker: [running, left, C], left the
                  \* minutes until the next tick, C a tick waiting in the channel
    synced,       \* session -> its watch cache finished the initial sync
    syncTask,     \* session -> position of the goroutine running ca.Start
    idleTask,     \* session -> position of the goroutine selecting on expired.C
    lastOp,       \* the last session operation: [op, calls, client, out], the
                  \* calls it made in order, what the underlying client
                  \* answered and what the operation returned
    returned,     \* history: session -> some Cache.Get returned it
    cancelCalls,  \* history: session -> number of calls of its cancel func
    cancelledBy,  \* history: session -> the session on whose behalf remove
                  \*          cancelled it (NoSession if not cancelled)
    mx            \* Cache.mx: [w, r], w the goroutine holding the write lock
                  \* (<<>> when free), r: token -> calls of Get(token)
                  \* holding the read lock

vars == <<active, built, missed, token, get, ctxDone, expired, synced, syncTask,
          idleTask, lastOp, returned, cancelCalls, cancelledBy, mx>>

mapVars == <<active, ctxDone, expired, cancelCalls, cancelledBy>>

\* ------------------------------------------------------------------ ticker
NoTicker == [running |-> FALSE, left |-> 0, C |-> FALSE]

\* time.NewTicker(expiry): the first tick is due after expiry.
NewTicker == [running |-> TRUE, left |-> expiry, C |-> FALSE]

\* Ticker.Stop: no more ticks are sent; the channel is not closed or drained.
TickerStop(t) == [running |-> FALSE, left |-> 0, C |-> t.C]

\* Ticker.Reset(expiry): the next tick is due after expiry, also for a stopped
\* ticker. Whether a tick already sitting in the channel survives depends on
\* the Go release the program is built with (drain).
TickerReset(t, drain) ==
    [running |-> TRUE, left |-> expiry, C |-> IF drain THEN FALSE ELSE t.C]

\* A minute passes: the runtime delivers the tick of a running ticker when it
\* is due, and the ticker is periodic.
TickerMinute(t) ==
    IF ~t.running THEN t
    ELSE IF t.left = 1 THEN [running |-> TRUE, left |-> expiry, C |-> TRUE]
    ELSE [t EXCEPT !.left = @ - 1]

\* -------------------------------------------------------------------- Init
\* sync.RWMutex, unlocked.
NoLock == [w |-> <<>>, r |-> [t \in Tokens |-> 0]]

NoOp == [op |-> "", calls |-> <<>>, client |-> "", out |-> ""]

Init ==
    /\ active = [t \in Tokens |-> NoSession]
    /\ built = 0
    /\ missed = [t \in Tokens |-> 0]
    /\ token = [s \in Sessions |-> ""]
    /\ get = [s \in Sessions |-> "none"]
    /\ ctxDone = [s \in Sessions |-> FALSE]
    /\ expired = [s \in Sessions |-> NoTicker]
    /\ synced = [s \in Sessions |-> FALSE]
    /\ syncTask = [s \in Sessions |-> "none"]
    /\ idleTask = [s \in Sessions |-> "none"]
    /\ lastOp = NoOp
    /\ returned = [s \in Sessions |-> FALSE]
    /\ cancelCalls = [s \in Sessions |-> 0]
    /\ cancelledBy = [s \in Sessions |-> NoSession]
    /\ mx = NoLock

\* ------------------------------------------------------------ Cache.remove
\* A remove that cancels and stops but forgets delete(c.active, token).
RemovedKeepsEntry(m, t, by) ==
    IF m.active[t] # NoSession
    THEN LET s == m.active[t] IN
         [active |-> m.active,
          ctxDone |-> [m.ctxDone EXCEPT ![s] = TRUE],
          expired |-> [m.expired EXCEPT ![s] = TickerStop(@)],
          cancelCalls |-> [m.cancelCalls EXCEPT ![s] = @ + 1],
          cancelledBy |-> [m.cancelledBy EXCEPT ![s] = by]]
    ELSE m

\* A remove that deletes the entry but forgets sn.expired.Stop().
RemovedKeepsTicker(m, t, by) ==
    IF m.active[t] # NoSession
    THEN LET s == m.active[t] IN
         [active |-> [m.active EXCEPT ![t] = NoSession],
          ctxDone |-> [m.ctxDone EXCEPT ![s] = TRUE],
          expired |-> m.expired,
          cancelCalls |-> [m.cancelCalls EXCEPT ![s] = @ + 1],
          cancelledBy |-> [m.cancelledBy EXCEPT ![s] = by]]
    ELSE m

\* The body of remove on the map state m = [active, ctxDone, expired,
\* cancelCalls, cancelledBy], called for token t on behalf of session by.
Removed(m, t, by) ==
    IF m.active[t] # NoSession
    THEN LET s == m.active[t] IN
         [active |-> [m.active EXCEPT ![t] = NoSession],
          ctxDone |-> [m.ctxDone EXCEPT ![s] = TRUE],
          expired |-> [m.expired EXCEPT ![s] = TickerStop(@)],
          cancelCalls |-> [m.cancelCalls EXCEPT ![s] = @ + 1],
          cancelledBy |-> [m.cancelledBy EXCEPT ![s] = by]]
    ELSE m

MapState ==
    [active |-> active, ctxDone |-> ctxDone, expired |-> expired,
     cancelCalls |-> cancelCalls, cancelledBy |-> cancelledBy]

remove(t, by) ==
    LET m == Removed(MapState, t, by) IN
    /\ active' = m.active
    /\ ctxDone' = m.ctxDone
    /\ expired' = m.expired
    /\ cancelCalls' = m.cancelCalls
    /\ cancelledBy' = m.cancelledBy

\* --------------------------------------------------------------- Cache.Get
\* The calls of Get that are between their lookup and their return.
InFlight(m, g) ==
    LET Sum[T \in SUBSET Tokens] ==
            IF T = {} THEN 0
            ELSE LET t == CHOOSE x \in T : TRUE IN m[t] + Sum[T \ {t}]
    IN Sum[Tokens]
       + Cardinality({s \in Sessions : g[s] \in {"insert", "go", "waitSync", "syncFailed"}})

\* A hit that also pushes back the expiry of the session it found.
GetHitResets(t) ==
    /\ active[t] # NoSession
    /\ returned' = [returned EXCEPT ![active[t]] = TRUE]
    /\ expired' = [expired EXCEPT ![active[t]] = TickerReset(@, FALSE)]
    /\ UNCHANGED <<mx, built, missed, token, get, synced, syncTask, idleTask, active,
                   ctxDone, cancelCalls, cancelledBy, lastOp>>

\* Lines 141-148: the lookup under the read lock finds a session and returns it.
GetHit(t) ==
    /\ active[t] # NoSession
    /\ returned' = [returned EXCEPT ![active[t]] = TRUE]
    /\ UNCHANGED <<mx, built, missed, token, get, synced, syncTask, idleTask, mapVars,
                   lastOp>>

\* Lines 141-154: the lookup under the read lock finds nothing.
GetMiss(t) ==
    /\ active[t] = NoSession
    /\ missed' = [missed EXCEPT ![t] = @ + 1]
    /\ UNCHANGED <<mx, built, token, get, synced, syncTask, idleTask, mapVars, lastOp,
                   returned>>

\* Lines 156-181: one of the three constructors fails and Get returns its error;
\* nothing was shared yet.
GetConstructFails(t, e) ==
    /\ missed[t] > 0
    /\ missed' = [missed EXCEPT ![t] = @ - 1]
    /\ UNCHANGED <<mx, built, token, get, synced, syncTask, idleTask, mapVars, lastOp,
                   returned>>

\* Lines 156-189: the clients, the ticker, the context and the session exist.
GetConstruct(t) ==
    /\ missed[t] > 0
    /\ built < MaxSessions
    /\ missed' = [missed EXCEPT ![t] = @ - 1]
    /\ LET s == built + 1 IN
       /\ built' = s
       /\ token' = [token EXCEPT ![s] = t]
       /\ expired' = [expired EXCEPT ![s] = NewTicker]
       /\ get' = [get EXCEPT ![s] = "insert"]
    /\ UNCHANGED <<mx, active, ctxDone, synced, syncTask, idleTask, lastOp, returned,
                   cancelCalls, cancelledBy>>

\* An insert under a key that is not the token of the call.
GetInsertSharedKey(s) ==
    /\ get[s] = "insert"
    /\ active' = [active EXCEPT !["tok-a"] = s]
    /\ get' = [get EXCEPT ![s] = "go"]
    /\ UNCHANGED <<mx, built, missed, token, ctxDone, expired, synced, syncTask, idleTask,
                   lastOp, returned, cancelCalls, cancelledBy>>

\* Lines 191-193: the insert under the write lock.
GetInsert(s) ==
    /\ get[s] = "insert"
    /\ active' = [active EXCEPT ![token[s]] = s]
    /\ get' = [get EXCEPT ![s] = "go"]
    /\ UNCHANGED <<mx, built, missed, token, ctxDone, expired, synced, syncTask, idleTask,
                   lastOp, returned, cancelCalls, cancelledBy>>

\* Lines 195-215: the two go statements. A started goroutine takes its first
\* step whenever it is scheduled, so starting both is one step of the caller.
GetGo(s) ==
    /\ get[s] = "go"
    /\ syncTask' = [syncTask EXCEPT ![s] = "start"]
    /\ idleTask' = [idleTask EXCEPT ![s] = "select"]
    /\ get' = [get EXCEPT ![s] = "waitSync"]
    /\ UNCHANGED <<mx, built, missed, token, synced, mapVars, lastOp, returned>>

\* A Get that returns its session without waiting for the initial sync.
GetReturnsUnsynced(s) ==
    /\ get[s] = "waitSync"
    /\ get' = [get EXCEPT ![s] = "returned"]
    /\ returned' = [returned EXCEPT ![s] = TRUE]
    /\ UNCHANGED <<mx, built, missed, token, synced, syncTask, idleTask, mapVars, lastOp>>

\* Lines 217, 222-227: WaitForCacheSync(ctx) returned true; Get returns sn.
GetSynced(s) ==
    /\ get[s] = "waitSync"
    /\ synced[s]
    /\ get' = [get EXCEPT ![s] = "returned"]
    /\ returned' = [returned EXCEPT ![s] = TRUE]
    /\ UNCHANGED <<mx, built, missed, token, synced, syncTask, idleTask, mapVars, lastOp>>

\* Line 217: WaitForCacheSync(ctx) returned false: ctx was done first.
GetNotSynced(s) ==
    /\ get[s] = "waitSync"
    /\ ctxDone[s]
    /\ get' = [get EXCEPT ![s] = "syncFailed"]
    /\ UNCHANGED <<mx, built, missed, token, synced, syncTask, idleTask, mapVars, lastOp,
                   returned>>

\* Lines 218-219: c.remove(token); return nil, "cannot sync cache".
GetSyncFailed(s) ==
    /\ get[s] = "syncFailed"
    /\ remove(token[s], s)
    /\ get' = [get EXCEPT ![s] = "failed"]
    /\ UNCHANGED <<mx, built, missed, token, synced, syncTask, idleTask, lastOp, returned>>

\* ------------------------------------------------- the sync/serve goroutine
\* Line 196: the watch cache reports its initial sync while Start runs.
CacheSynced(s) ==
    /\ syncTask[s] = "start"
    /\ ~synced[s]
    /\ ~ctxDone[s]
    /\ synced' = [synced EXCEPT ![s] = TRUE]
    /\ UNCHANGED <<mx, built, missed, token, get, syncTask, idleTask, mapVars, lastOp,
                   returned>>

\* Line 196: ca.Start(ctx) returns although ctx is not done: the cache crashed.
CacheCrashed(s) ==
    /\ syncTask[s] = "start"
    /\ ~ctxDone[s]
    /\ syncTask' = [syncTask EXCEPT ![s] = "crashed"]
    /\ UNCHANGED <<mx, built, missed, token, get, synced, idleTask, mapVars, lastOp,
                   returned>>

\* Line 196: ca.Start(ctx) returns because ctx is done.
CacheStopped(s) ==
    /\ syncTask[s] = "start"
    /\ ctxDone[s]
    /\ syncTask' = [syncTask EXCEPT ![s] = "remove"]
    /\ UNCHANGED <<mx, built, missed, token, get, synced, idleTask, mapVars, lastOp,
                   returned>>

\* A sync/serve goroutine that finishes without calling c.remove.
StartNoRemove(s) ==
    /\ syncTask[s] \in {"crashed", "remove"}
    /\ syncTask' = [syncTask EXCEPT ![s] = "done"]
    /\ UNCHANGED <<mx, built, missed, token, get, synced, idleTask, mapVars, lastOp,
                   returned>>

\* Line 201: c.remove(token), with the token of the Get that started the task.
StartRemove(s) ==
    /\ syncTask[s] \in {"crashed", "remove"}
    /\ remove(token[s], s)
    /\ syncTask' = [syncTask EXCEPT ![s] = "done"]
    /\ UNCHANGED <<mx, built, missed, token, get, synced, idleTask, lastOp, returned>>

\* ------------------------------------------------- the idle-watch goroutine
\* Line 207: case <-expired.C.
ExpireTick(s) ==
    /\ idleTask[s] = "select"
    /\ expired[s].C
    /\ expired' = [expired EXCEPT ![s].C = FALSE]
    /\ idleTask' = [idleTask EXCEPT ![s] = "remove"]
    /\ UNCHANGED <<mx, active, built, missed, token, get, ctxDone, synced, syncTask,
                   lastOp, returned, cancelCalls, cancelledBy>>

\* Line 210: case <-ctx.Done(): the goroutine finishes without removing.
ExpireCtxDone(s) ==
    /\ idleTask[s] = "select"
    /\ ctxDone[s]
    /\ idleTask' = [idleTask EXCEPT ![s] = "done"]
    /\ UNCHANGED <<mx, built, missed, token, get, synced, syncTask, mapVars, lastOp,
                   returned>>

\* Line 209: c.remove(token).
ExpireRemove(s) ==
    /\ idleTask[s] = "remove"
    /\ remove(token[s], s)
    /\ idleTask' = [idleTask EXCEPT ![s] = "removed"]
    /\ UNCHANGED <<mx, built, missed, token, get, synced, syncTask, lastOp, returned>>

\* ------------------------------------------------------ session operations
\* An operation that swallows the error of the underlying client.
PropagateSwallow(r) == IF r = "error" THEN "nil" ELSE r

\* `return err`: what the underlying client answered is what the caller gets.
Propagate(r) == r

\* Lines 250-260 (and the same lines of the nine other operations), on a
\* session some Get returned: the ticker is reset, then the underlying client
\* is called once and answers r, and that answer is returned.
Operate(s, op, r, drain) ==
    /\ returned[s]
    /\ r \in ClientResults(op)
    /\ expired' = [expired EXCEPT ![s] = TickerReset(@, drain)]
    /\ lastOp' = [op |-> op, calls |-> <<"expired.Reset", "client." \o op>>,
                  client |-> r, out |-> Propagate(r)]
    /\ UNCHANGED <<mx, active, built, missed, token, get, ctxDone, synced, syncTask,
                   idleTask, returned, cancelCalls, cancelledBy>>

\* -------------------------------------------------------------------- time
\* A ticker whose channel has, or will have, a receiver: the idle-watch
\* goroutine receives at most once. The ticks of the other tickers are
\* received by nobody and are left out.
Listened(s) == idleTask[s] \in {"none", "select"}

\* A goroutine that can take a step without waiting for the watch cache, for a
\* tick or for a cancellation. Such a step takes far less than a minute: the
\* clock does not reach the next minute before it is taken.
Busy ==
    \/ \E t \in Tokens : missed[t] > 0
    \/ \E s \in Sessions :
          \/ get[s] \in {"insert", "go", "syncFailed"}
          \/ get[s] = "waitSync" /\ (synced[s] \/ ctxDone[s])
          \/ syncTask[s] \in {"crashed", "remove"}
          \/ syncTask[s] = "start" /\ ctxDone[s]
          \/ idleTask[s] = "remove"
          \/ idleTask[s] = "select" /\ (expired[s].C \/ ctxDone[s])

\* One minute passes for every ticker.
Advance ==
    /\ ~Busy
    /\ \E s \in Sessions : expired[s].running /\ Listened(s)
    /\ expired' = [s \in Sessions |->
                     IF Listened(s) THEN TickerMinute(expired[s]) ELSE expired[s]]
    /\ UNCHANGED <<mx, active, built, missed, token, get, ctxDone, synced, syncTask,
                   idleTask, lastOp, returned, cancelCalls, cancelledBy>>

\* -------------------------------------------------------------------- Next
\* The steps of the calls of Cache.Get for the tokens T, at most n at a time,
\* while fewer than k sessions were built.
GetStep(T, n, k) ==
    \/ \E t \in T : GetHit(t)
    \/ \E t \in T : GetMiss(t) /\ InFlight(missed, get) < n /\ built < k
    \/ \E t \in T, e \in ConstructionErrors : GetConstructFails(t, e)
    \/ \E t \in T : GetConstruct(t)
    \/ \E s \in Sessions : GetInsert(s)
    \/ \E s \in Sessions : GetGo(s)
    \/ \E s \in Sessions : GetSynced(s)
    \/ \E s \in Sessions : GetNotSynced(s)
    \/ \E s \in Sessions : GetSyncFailed(s)

\* The steps of the goroutines of the sessions.
TaskStep ==
    \/ \E s \in Sessions : CacheSynced(s)
    \/ \E s \in Sessions : CacheCrashed(s)
    \/ \E s \in Sessions : CacheStopped(s)
    \/ \E s \in Sessions : StartRemove(s)
    \/ \E s \in Sessions : ExpireTick(s)
    \/ \E s \in Sessions : ExpireCtxDone(s)
    \/ \E s \in Sessions : ExpireRemove(s)

\* Every goroutine of the program. The ten operations of a session do the same
\* to the cache, so here callers use Get, answered nil; SpecOps has them all.
Next ==
    \/ GetStep(Tokens, MaxCallers, MaxSessions)
    \/ TaskStep
    \/ \E s \in Sessions, drain \in BOOLEAN : Operate(s, "Get", "nil", drain)
    \/ Advance

Spec == Init /\ [][Next]_vars

\* One session, with every operation of a session and every answer of the
\* underlying client.
NextOps ==
    \/ GetStep({"tok-a"}, 1, 1)
    \/ TaskStep
    \/ \E s \in Sessions, op \in Operations, r \in {"nil", "error", "object"},
          drain \in BOOLEAN : Operate(s, op, r, drain)
    \/ Advance

SpecOps == Init /\ [][NextOps]_vars

\* ------------------------------------------------------------------ claims
\* What the lookup of a Cache.Get(t) issued now finds (lines 141-143).
Lookup(t) == active[t]

\* Some Get returned s, its ticker has delivered no tick and its idle-watch
\* goroutine still waits for one, and the Start of its watch cache still runs.
Alive(s) ==
    /\ returned[s]
    /\ syncTask[s] = "start"
    /\ idleTask[s] = "select"
    /\ ~expired[s].C

\* C1: a Get(T) issued after an earlier Get(T) returned session s, before the
\* idle ticker of s expires and with no crash of its watch cache, finds s in
\* the map: it returns s itself and builds nothing.
C1_SameSession ==
    \A s \in Sessions : Alive(s) => Lookup(token[s]) = s

\* Session s is the entry of some key of the map.
InMap(s) == \E t \in Tokens : Lookup(t) = s

\* Session s was inserted into the map.
Registered(s) == get[s] \notin {"none", "insert"}

\* The ticker of a registered session s has delivered no tick and the Start of
\* its watch cache has not returned: operations came less than expiry apart
\* and the watch cache did not crash.
InUse(s) ==
    /\ Registered(s)
    /\ syncTask[s] \in {"none", "start"}
    /\ idleTask[s] \in {"none", "select"}
    /\ ~expired[s].C

\* C2: a session on which operations are issued less than expiry apart, and
\* whose watch cache does not crash, is never evicted: its context is not
\* cancelled and its ticker is not stopped, whatever the other calls of Get and the
\* goroutines of other sessions for the same token do.
C2_NeverEvicted ==
    \A s \in Sessions : InUse(s) => ~ctxDone[s] /\ expired[s].running

\* The idle-watch goroutine of session s took a tick of its ticker and ran its
\* remove: a full expiry had passed without an operation on s.
TimedOut(s) == idleTask[s] = "removed"

\* C3: a session that saw no operation for expiry is evicted: once its
\* idle-watch goroutine has acted on the tick, the session is under no key of
\* the map and its context is cancelled (so that its watch cache stops and the
\* next Get for its token builds another instance).
C3_IdleEviction ==
    \A s \in Sessions : TimedOut(s) => ~InMap(s) /\ ctxDone[s]

\* C4: once the sync/serve goroutine of a session has returned from Start and
\* run its remove, the session is under no key of the map.
C4_StoppedCacheRemoved ==
    \A s \in Sessions : syncTask[s] = "done" => \A t \in Tokens : Lookup(t) # s

\* The watch cache of a session crashed and its sync/serve goroutine removed
\* the session while the idle-watch goroutine still waits for the first tick.
C4_Witness ==
    \E s \in Sessions :
        /\ syncTask[s] = "done"
        /\ cancelledBy[s] = s
        /\ idleTask[s] = "select" /\ ~expired[s].C
        /\ Lookup(token[s]) = NoSession

\* C5: a Get that fails leaves no session it built in the map: a constructor
\* failure changes neither the map nor any goroutine, and after a sync failure
\* the session is under no key and its token has no entry, so that the next Get
\* for the token misses.
C5_FailedGetLeavesNothing ==
    [][ /\ \A t \in Tokens, e \in ConstructionErrors :
             GetConstructFails(t, e)
                => UNCHANGED <<active, built, get, syncTask, idleTask, ctxDone, expired>>
        /\ \A s \in Sessions :
             GetSyncFailed(s) => Lookup(token[s])' = NoSession
        /\ \A s \in Sessions :
             get'[s] = "failed" => \A t \in Tokens : Lookup(t)' # s
      ]_vars

\* A Get returned "cannot sync cache" for the session it built.
C5_Witness ==
    \E s \in Sessions : get[s] = "failed" /\ ctxDone[s] /\ Lookup(token[s]) = NoSession

\* C6: remove is idempotent: in every reachable state and for every token, a
\* second remove changes nothing the first one left, there is no entry under
\* the token, and the session that was there is cancelled once and stopped.
C6_RemoveIdempotent ==
    \A t \in Tokens, a, b \in Sessions :
        LET once == Removed(MapState, t, a)
            was == active[t]
        IN /\ Removed(once, t, b) = once
           /\ once.active[t] = NoSession
           /\ was # NoSession =>
                /\ once.ctxDone[was]
                /\ ~once.expired[was].running
                /\ once.cancelCalls[was] = cancelCalls[was] + 1
           /\ \A s \in Sessions : cancelCalls[s] <= 1

\* Both goroutines of a session ran remove for its token, one after the other.
C6_Witness ==
    \E s \in Sessions :
        /\ syncTask[s] = "done" /\ idleTask[s] = "removed"
        /\ cancelCalls[s] = 1
        /\ Lookup(token[s]) = NoSession

\* C7: a session is only ever registered under the token of the Get that built
\* it, so no session is under two keys and the Gets of two tokens never return
\* the same instance.
C7_NoSharedSession ==
    /\ \A t \in Tokens : Lookup(t) # NoSession => token[Lookup(t)] = t
    /\ \A t1, t2 \in Tokens : t1 # t2 /\ Lookup(t1) # NoSession => Lookup(t1) # Lookup(t2)

\* Both tokens have a session in the map.
C7_Witness ==
    \A t \in Tokens : Lookup(t) # NoSession /\ returned[Lookup(t)]

\* C8: every operation of a session resets the ticker to the full expiry, then
\* calls the underlying client once, and returns what the client answered.
C8_ResetThenDelegate ==
    [][ \A s \in Sessions, op \in Operations, r \in {"nil", "error", "object"},
           d \in BOOLEAN :
          Operate(s, op, r, d)
             => /\ expired'[s].running /\ expired'[s].left = expiry
                /\ lastOp'.calls = <<"expired.Reset", "client." \o op>>
                /\ lastOp'.client = r
                /\ lastOp'.out = r
      ]_vars

\* An operation returned the error of the underlying client and left the ticker
\* of its session at the full expiry.
C8_Witness ==
    /\ lastOp.op = "Patch"
    /\ lastOp.out = "error"
    /\ lastOp.calls = <<"expired.Reset", "client.Patch">>
    /\ \E s \in Sessions : returned[s] /\ expired[s].running /\ expired[s].left = expiry

\* C9: a session that a later insert for the same token replaced in the map is
\* still torn down within expiry of its last use: once its idle-watch goroutine
\* has taken a tick and run remove, its sync/serve goroutine does not run on
\* for ever: its context is cancelled, or Start has returned already.
C9_OrphanTornDown ==
    \A s \in Sessions :
        Registered(s) /\ ~InMap(s) /\ TimedOut(s)
            => ctxDone[s] \/ syncTask[s] \in {"crashed", "remove", "done"}

\* C10: the context of a session is cancelled, and its ticker stopped, only by
\* a remove called by its own goroutines or by the Get that built it.
C10_OwnSessionOnly ==
    \A s \in Sessions : cancelledBy[s] \in {NoSession, s}

\* C11: removal happens once and is final: whatever goroutine or caller runs
\* remove, the cancel function of a session is called, and its ticker stopped by
\* remove, only in the step that deletes it from the map and at most once; and
\* a session that was in the map and is no longer there is never put back.
C11_RemovedOnce ==
    [][ \A s \in Sessions :
          /\ cancelCalls'[s] <= 1
          /\ cancelCalls'[s] # cancelCalls[s]
                => InMap(s) /\ ~InMap(s)' /\ ctxDone'[s] /\ ~expired'[s].running
          /\ Registered(s) /\ ~InMap(s) => ~InMap(s)'
      ]_vars

\* The idle-watch goroutine, the failed Get and the sync/serve goroutine of one
\* session have all run remove, and its cancel function was called once.
C11_Witness ==
    \E s \in Sessions :
        /\ idleTask[s] = "removed" /\ get[s] = "failed" /\ syncTask[s] = "done"
        /\ cancelCalls[s] = 1 /\ cancelledBy[s] = s

\* The sync/serve goroutine of s runs Start, or Start returned and the goroutine
\* is on its way to remove; the idle-watch goroutine of s waits in its select,
\* or took the tick and is on its way to remove.
Supervised(s) ==
    /\ syncTask[s] \in {"start", "crashed", "remove"}
    /\ idleTask[s] \in {"select", "remove"}

\* No token has two sessions in the map.
OneEntryPerToken ==
    \A s1, s2 \in Sessions :
        InMap(s1) /\ InMap(s2) /\ token[s1] = token[s2] => s1 = s2

\* C12 as stated: the map holds at most one entry per token, and every session
\* in the map has both goroutines running, or one of them is on its way to
\* remove the entry.
C12_EntrySupervisedAlways ==
    /\ OneEntryPerToken
    /\ \A s \in Sessions : InMap(s) => Supervised(s)

\* C12, amended: the map holds at most one entry per token, and every session
\* in the map has both goroutines running or on their way to remove the entry,
\* except that the Get which has just inserted the session has not reached its
\* two go statements yet.
C12_EntrySupervised ==
    /\ OneEntryPerToken
    /\ \A s \in Sessions : InMap(s) => get[s] = "go" \/ Supervised(s)

\* A session is in the map while both of its goroutines are on their way to
\* remove it: its watch cache crashed and its ticker ticked.
C12_Witness ==
    \E s \in Sessions :
        InMap(s) /\ get[s] = "returned" /\ syncTask[s] = "crashed" /\ idleTask[s] = "remove"

\* The calls of Cache.Get for one token and the goroutines they start, with no
\* session operation: whether and when a watch cache syncs or crashes is up to
\* the API server, every other step of a goroutine is taken once it can be, and
\* time passes.
NextLive ==
    \/ GetStep({"tok-a"}, MaxCallers, MaxSessions)
    \/ TaskStep
    \/ Advance

Fairness ==
    /\ \A t \in Tokens :
          WF_vars(GetConstruct(t) \/ \E e \in ConstructionErrors : GetConstructFails(t, e))
    /\ \A s \in Sessions :
          /\ WF_vars(GetInsert(s))
          /\ WF_vars(GetGo(s))
          /\ WF_vars(GetSynced(s))
          /\ WF_vars(GetNotSynced(s))
          /\ WF_vars(GetSyncFailed(s))
          /\ WF_vars(CacheStopped(s))
          /\ WF_vars(StartRemove(s))
          /\ WF_vars(ExpireTick(s))
          /\ WF_vars(ExpireCtxDone(s))
          /\ WF_vars(ExpireRemove(s))
    /\ WF_vars(Advance)

SpecLive == Init /\ [][NextLive]_vars /\ Fairness

\* C13: every Get that waits for the initial sync of the watch cache it built
\* eventually returns, with its session or with "cannot sync cache", also when
\* the watch cache never syncs and also when two Gets built a session for the
\* same token.
C13_GetReturns ==
    \A s \in Sessions : (get[s] = "waitSync") ~> (get[s] \in {"returned", "failed"})

\* ------------------------------------------------- Cache.mx, step by step
\* The same program with every Lock, RLock and unlock of c.mx as a step of its
\* own. A goroutine holding the write lock is named by what it is, <<"get", s>>
\* the Get that built s, <<"sync", s>> and <<"idle", s>> the goroutines of s.
Unlocked == mx.w = <<>> /\ \A t \in Tokens : mx.r[t] = 0

frameMx == <<built, token, ctxDone, expired, synced, syncTask, idleTask, lastOp,
             cancelCalls, cancelledBy>>

\* Line 141: c.mx.RLock() of a Get(t); readers share the lock.
GetRLock(t) ==
    /\ mx.w = <<>>
    /\ mx' = [mx EXCEPT !.r[t] = @ + 1]
    /\ UNCHANGED <<active, missed, get, returned, frameMx>>

\* Lines 142-148: the lookup, c.mx.RUnlock(), and the return of the session
\* that was found, or the way on to the constructors.
GetLookupRUnlock(t) ==
    /\ mx.r[t] > 0
    /\ mx' = [mx EXCEPT !.r[t] = @ - 1]
    /\ IF active[t] # NoSession
       THEN returned' = [returned EXCEPT ![active[t]] = TRUE] /\ UNCHANGED missed
       ELSE missed' = [missed EXCEPT ![t] = @ + 1] /\ UNCHANGED returned
    /\ UNCHANGED <<active, get, frameMx>>

\* Line 191: c.mx.Lock() before the insert.
GetInsertLock(s) ==
    /\ get[s] = "insert"
    /\ Unlocked
    /\ mx' = [mx EXCEPT !.w = <<"get", s>>]
    /\ UNCHANGED <<active, missed, get, returned, frameMx>>

\* An insert that returns to the caller with the write lock still held.
GetInsertKeepsLock(s) ==
    /\ get[s] = "insert"
    /\ mx.w = <<"get", s>>
    /\ active' = [active EXCEPT ![token[s]] = s]
    /\ get' = [get EXCEPT ![s] = "go"]
    /\ UNCHANGED <<mx, missed, returned, frameMx>>

\* Lines 192-193: the insert and c.mx.Unlock().
GetInsertUnlock(s) ==
    /\ get[s] = "insert"
    /\ mx.w = <<"get", s>>
    /\ active' = [active EXCEPT ![token[s]] = s]
    /\ get' = [get EXCEPT ![s] = "go"]
    /\ mx' = [mx EXCEPT !.w = <<>>]
    /\ UNCHANGED <<missed, returned, frameMx>>

\* The goroutine k of session s is about to call c.remove(token).
AtRemove(k, s) ==
    \/ k = "get" /\ get[s] = "syncFailed"
    \/ k = "sync" /\ syncTask[s] \in {"crashed", "remove"}
    \/ k = "idle" /\ idleTask[s] = "remove"

\* Line 231: c.mx.Lock() of the remove called by goroutine k of session s.
RemoveLock(k, s) ==
    /\ AtRemove(k, s)
    /\ Unlocked
    /\ mx' = [mx EXCEPT !.w = <<k, s>>]
    /\ UNCHANGED <<active, missed, get, returned, frameMx>>

\* Lines 232-240: the body of remove and the deferred c.mx.Unlock(); the caller
\* goes on (lines 202, 214, 219).
RemoveUnlock(k, s) ==
    /\ AtRemove(k, s)
    /\ mx.w = <<k, s>>
    /\ remove(token[s], s)
    /\ mx' = [mx EXCEPT !.w = <<>>]
    /\ get' = IF k = "get" THEN [get EXCEPT ![s] = "failed"] ELSE get
    /\ syncTask' = IF k = "sync" THEN [syncTask EXCEPT ![s] = "done"] ELSE syncTask
    /\ idleTask' = IF k = "idle" THEN [idleTask EXCEPT ![s] = "removed"] ELSE idleTask
    /\ UNCHANGED <<built, missed, token, synced, lastOp, returned>>

Goroutines == {"get", "sync", "idle"}

\* The calls of Get that hold the read lock.
Readers == InFlight(mx.r, [s \in Sessions |-> "none"])

NextLock ==
    \/ \E t \in Tokens : GetRLock(t) /\ InFlight(missed, get) + Readers < MaxCallers
                                     /\ (Lookup(t) # NoSession \/ built < MaxSessions)
    \/ \E t \in Tokens : GetLookupRUnlock(t)
    \/ \E t \in Tokens, e \in ConstructionErrors : GetConstructFails(t, e)
    \/ \E t \in Tokens : GetConstruct(t)
    \/ \E s \in Sessions : GetInsertLock(s)
    \/ \E s \in Sessions : GetInsertUnlock(s)
    \/ \E s \in Sessions : GetGo(s)
    \/ \E s \in Sessions : GetSynced(s)
    \/ \E s \in Sessions : GetNotSynced(s)
    \/ \E s \in Sessions, k \in Goroutines : RemoveLock(k, s)
    \/ \E s \in Sessions, k \in Goroutines : RemoveUnlock(k, s)
    \/ \E s \in Sessions : CacheSynced(s)
    \/ \E s \in Sessions : CacheCrashed(s)
    \/ \E s \in Sessions : CacheStopped(s)
    \/ \E s \in Sessions : ExpireTick(s)
    \/ \E s \in Sessions : ExpireCtxDone(s)
    \/ \E s \in Sessions, drain \in BOOLEAN : Operate(s, "Get", "nil", drain)
    \/ Advance /\ Unlocked

SpecLock == Init /\ [][NextLock]_vars

\* C14: c.mx is held only around the lookup and the insert of Get and the body
\* of remove: a goroutine holding the write lock is at its insert or at its
\* remove, never constructing, launching, running Start, waiting in the select
\* or waiting for the initial sync, and it holds the lock alone; whoever holds
\* the lock can always take its next step and unlock; and while a Get waits for
\* its initial sync, a Get for any token can take the read lock as soon as no
\* insert or remove is in progress, and complete its lookup.
C14_LockScope ==
    /\ \A s \in Sessions :
          /\ mx.w = <<"get", s>> => get[s] \in {"insert", "syncFailed"}
          /\ mx.w = <<"sync", s>> => syncTask[s] \in {"crashed", "remove"}
          /\ mx.w = <<"idle", s>> => idleTask[s] = "remove"
    /\ mx.w # <<>> => Readers = 0
    /\ mx.w # <<>> =>
          ENABLED (\E s \in Sessions :
                      GetInsertUnlock(s) \/ \E k \in Goroutines : RemoveUnlock(k, s))
    /\ \A t \in Tokens : mx.r[t] > 0 => ENABLED GetLookupRUnlock(t)
    /\ \A s \in Sessions, t \in Tokens :
          get[s] = "waitSync" /\ mx.w = <<>> => ENABLED GetRLock(t)

\* A Get for one token holds the read lock and finds a session, while the Get
\* that built a session for the other token waits for its initial sync.
C14_Witness ==
    \E s \in Sessions, t \in Tokens :
        /\ get[s] = "waitSync" /\ ~synced[s] /\ ~ctxDone[s]
        /\ t # token[s]
        /\ mx.r[t] > 0 /\ Lookup(t) # NoSession

\* C15: the duplicate-build race: an insert puts its session under the token
\* whatever is there, so of two sessions built for the same token the one
\* inserted second is the entry; the session it replaces is only dropped from
\* the map, with its context, ticker and goroutines as they were.
C15_SecondInsertWins ==
    [][ \A s \in Sessions :
          GetInsert(s)
             => /\ Lookup(token[s])' = s
                /\ \A o \in Sessions \ {s} :
                     /\ InMap(o) /\ token[o] = token[s] => ~InMap(o)'
                     /\ ctxDone'[o] = ctxDone[o] /\ expired'[o] = expired[o]
                     /\ syncTask'[o] = syncTask[o] /\ idleTask'[o] = idleTask[o]
      ]_vars

\* Two sessions were built for one token and both were inserted: each has its
\* two goroutines running, no remove has touched either, and the map holds one
\* of them. The other was in the map from its insert on, so the lookup of the
\* second Get came before either insert.
C15_Witness ==
    \E s1, s2 \in Sessions :
        /\ s1 # s2 /\ token[s1] = token[s2]
        /\ Registered(s1) /\ Registered(s2)
        /\ syncTask[s1] = "start" /\ syncTask[s2] = "start"
        /\ idleTask[s1] = "select" /\ idleTask[s2] = "select"
        /\ cancelCalls[s1] = 0 /\ cancelCalls[s2] = 0
        /\ Lookup(token[s2]) = s2 /\ ~InMap(s1)

\* C16: the order of the miss path: the goroutines of a session are started
\* only after its insert and before the wait for the initial sync, and the Get
\* that built a session returns it only when the watch cache of that very
\* session has reported its initial sync.
C16_MissPathOrder ==
    [][ \A s \in Sessions :
          /\ get[s] \in {"none", "insert", "go"}
                => syncTask[s] = "none" /\ idleTask[s] = "none"
          /\ GetInsert(s) => ~InMap(s) /\ InMap(s)'
          /\ GetGo(s)
                => /\ Registered(s)
                   /\ syncTask'[s] = "start" /\ idleTask'[s] = "select"
                   /\ get'[s] = "waitSync"
          /\ get[s] \in {"waitSync", "syncFailed", "failed", "returned"}
                => syncTask[s] # "none" /\ idleTask[s] # "none"
          /\ get'[s] = "returned" => synced'[s]
          /\ get[s] # "returned" /\ get'[s] = "returned" => get[s] = "waitSync"
      ]_vars

\* A Get returned the session it built: the session is in the map, its
\* goroutines run and its watch cache has synced.
C16_Witness ==
    \E s \in Sessions :
        get[s] = "returned" /\ synced[s] /\ InMap(s) /\ Supervised(s) /\ ~ctxDone[s]

\* C17: a Get that hits changes nothing of the cache: not the map, no ticker,
\* no context, no goroutine, and it builds nothing; and the expiry of a session
\* is pushed back by no step other than an operation of that session.
C17_HitChangesNothing ==
    [][ /\ \A t \in Tokens :
             GetHit(t)
                => UNCHANGED <<active, expired, ctxDone, cancelCalls, built, missed,
                               token, get, synced, syncTask, idleTask, mx>>
        /\ \A s \in Sessions :
             get[s] # "none" /\ expired'[s].running /\ expired'[s].left > expired[s].left
                => \/ \E d \in BOOLEAN : Operate(s, "Get", "nil", d)
                   \/ Advance /\ expired[s].left = 1
      ]_vars

\* A session that only a hit has returned so far, with its ticker part of the
\* way to the tick.
C17_Witness ==
    \E s \in Sessions :
        /\ returned[s] /\ get[s] = "waitSync" /\ InMap(s)
        /\ lastOp = NoOp
        /\ expired[s].running /\ expired[s].left < expiry

\* C18: a session in the map has a context that is not cancelled and a ticker
\* that is not stopped: a context is cancelled and a ticker stopped only in a
\* step taken with the write lock held, which does both and deletes the entry
\* of the session at once; and an entry is deleted only in such a step.
C18_EntryLive ==
    [][ /\ \A s \in Sessions : InMap(s) => ~ctxDone[s] /\ expired[s].running
        /\ \A s \in Sessions :
             ctxDone'[s] # ctxDone[s] \/ (expired[s].running /\ ~expired'[s].running)
                => /\ mx.w # <<>> /\ Readers = 0
                   /\ InMap(s) /\ ~InMap(s)'
                   /\ Lookup(token[s])' = NoSession
                   /\ ctxDone'[s] /\ ~expired'[s].running
        /\ \A t \in Tokens :
             Lookup(t) # NoSession /\ Lookup(t)' = NoSession
                => /\ mx.w # <<>> /\ Readers = 0
                   /\ ctxDone'[Lookup(t)] /\ ~expired'[Lookup(t)].running
      ]_vars

\* One session was removed and cancelled while another, used by an operation,
\* is in the map with its context live and its ticker running.
C18_Witness ==
    \E s1, s2 \in Sessions :
        /\ ctxDone[s1] /\ ~InMap(s1) /\ ~expired[s1].running
        /\ InMap(s2) /\ returned[s2] /\ lastOp # NoOp
        /\ ~ctxDone[s2] /\ expired[s2].running

\* C19: a session that Get(T) returns is, when Get returns, the entry of T in
\* the map, and its context is not cancelled: on the hit path for the session
\* the lookup found, on the miss path for the session the call built.
C19_ReturnedIsRegistered ==
    [][ /\ \A t \in Tokens :
             GetHit(t) => returned'[Lookup(t)'] /\ ~ctxDone'[Lookup(t)']
        /\ \A s \in Sessions :
             GetSynced(s) => Lookup(token[s])' = s /\ ~ctxDone'[s]
      ]_vars

\* C20: the ticker of a session that remove has stopped stays stopped, also
\* when an operation is called on the removed session.
C20_StoppedStaysStopped ==
    \A s \in Sessions : cancelCalls[s] > 0 => ~expired[s].running

====
